---- MODULE Spec2Model ----
(***************************************************************************)
(* External merge sort of newline-delimited unsigned 64-bit integers       *)
(* (src/src/main.rs): the spill phase of main, Sorter::sort_and_write_to_  *)
(* file, Sorter::merge_files and Sorter::get_temp_file_path, over a file   *)
(* system that maps paths to sequences of text lines.                      *)
(*                                                                         *)
(* A u64 is a tuple of four 16-bit limbs, most significant first, so that  *)
(* the whole range 0 .. 2^64-1 is represented exactly.  A line of text is  *)
(* a sequence of one-character strings.                                    *)
(***************************************************************************)
EXTENDS Integers, Sequences, FiniteSets, Bags, TLC

\* ------------------------------------------------------------------ bounds

\* The longest input file, in lines.
MaxLen == 3

\* How many faults the environment may inject in one run (SpecFault only): a
\* damaged partition line, a failed read or a failed removal of a partition.
MaxFaults == 1

\* ------------------------------------------------------------- u64 values

LimbBase == 2^16

U64Zero == <<0, 0, 0, 0>>

U64Max == <<LimbBase - 1, LimbBase - 1, LimbBase - 1, LimbBase - 1>>

\* Ord for u64 treated as a signed quantity: the top bit makes a value small.
U64LessSigned(a, b) ==
    LET sa == IF a[1] >= LimbBase \div 2 THEN a[1] - LimbBase ELSE a[1]
        sb == IF b[1] >= LimbBase \div 2 THEN b[1] - LimbBase ELSE b[1]
    IN  \/ sa < sb
        \/ sa = sb /\ \E k \in 2..4 :
                         a[k] < b[k] /\ \A j \in 2..(k - 1) : a[j] = b[j]

\* F applied to the value of x, with x evaluated once.
Bind(x, F(_)) == CHOOSE r \in {F(v) : v \in {x}} : TRUE

\* a < b on u64.
U64Less(a, b) ==
    \E k \in 1..4 : a[k] < b[k] /\ \A j \in 1..(k - 1) : a[j] = b[j]

\* checked_mul(10) followed by checked_add(d): <<>> on overflow.
CheckedMulAdd(v, d) ==
    LET t4 == v[4] * 10 + d
        t3 == v[3] * 10 + (t4 \div LimbBase)
        t2 == v[2] * 10 + (t3 \div LimbBase)
        t1 == v[1] * 10 + (t2 \div LimbBase)
    IN  IF t1 \div LimbBase > 0
        THEN <<>>
        ELSE <<t1 % LimbBase, t2 % LimbBase, t3 % LimbBase, t4 % LimbBase>>

\* v divided by ten: quotient and remainder.
DivMod10(v) ==
    LET c1 == v[1]
        c2 == (c1 % 10) * LimbBase + v[2]
        c3 == (c2 % 10) * LimbBase + v[3]
        c4 == (c3 % 10) * LimbBase + v[4]
    IN  [q |-> <<c1 \div 10, c2 \div 10, c3 \div 10, c4 \div 10>>, r |-> c4 % 10]

\* ------------------------------------------------------- text <-> u64

DigitVal ==
    [c \in {"0", "1", "2", "3", "4", "5", "6", "7", "8", "9"} |->
        CASE c = "0" -> 0 [] c = "1" -> 1 [] c = "2" -> 2 [] c = "3" -> 3
          [] c = "4" -> 4 [] c = "5" -> 5 [] c = "6" -> 6 [] c = "7" -> 7
          [] c = "8" -> 8 [] c = "9" -> 9]

DigitChar == <<"0", "1", "2", "3", "4", "5", "6", "7", "8", "9">>

ParseOk(v) == [ok |-> TRUE, val |-> v, err |-> "none"]

ParseErr(e) == [ok |-> FALSE, val |-> U64Zero, err |-> e]

RECURSIVE ParseDigits(_, _)
ParseDigits(s, acc) ==
    IF s = <<>> THEN ParseOk(acc)
    ELSE IF Head(s) \notin DOMAIN DigitVal THEN ParseErr("InvalidDigit")
    ELSE Bind(CheckedMulAdd(acc, DigitVal[Head(s)]),
              LAMBDA n : IF n = <<>> THEN ParseErr("PosOverflow")
                         ELSE ParseDigits(Tail(s), n))

\* A parser that takes a blank line for zero.
ParseU64BlankIsZero(line) ==
    IF line = <<>> THEN ParseOk(U64Zero)
    ELSE IF line = <<"+">> \/ line = <<"-">> THEN ParseErr("InvalidDigit")
    ELSE IF Head(line) = "+" THEN ParseDigits(Tail(line), U64Zero)
    ELSE ParseDigits(line, U64Zero)

\* str::parse::<u64>: an optional "+", then one or more decimal digits whose
\* value fits 64 bits; no trimming of white space.
ParseU64(line) ==
    IF line = <<>> THEN ParseErr("Empty")
    ELSE IF line = <<"+">> \/ line = <<"-">> THEN ParseErr("InvalidDigit")
    ELSE IF Head(line) = "+" THEN ParseDigits(Tail(line), U64Zero)
    ELSE ParseDigits(line, U64Zero)

RECURSIVE FormatDigits(_)
FormatDigits(v) ==
    IF v = U64Zero THEN <<>>
    ELSE Bind(DivMod10(v),
              LAMBDA dm : Append(FormatDigits(dm.q), DigitChar[dm.r + 1]))

\* Display for u64: decimal, no sign, no leading zeros.
FormatU64(v) == IF v = U64Zero THEN <<"0">> ELSE FormatDigits(v)

\* The lines writeln!(file, "{}", num) produces for a sequence of numbers.
FormatAll(nums) == [i \in 1..Len(nums) |-> FormatU64(nums[i])]

\* ------------------------------------------------------------- sorting

RECURSIVE InsertSorted(_, _)
InsertSorted(s, v) ==
    IF s = <<>> THEN <<v>>
    ELSE IF U64Less(v, Head(s)) THEN <<v>> \o s
    ELSE <<Head(s)>> \o InsertSorted(Tail(s), v)

RECURSIVE SortAscending(_)
SortAscending(s) ==
    IF s = <<>> THEN <<>>
    ELSE Bind(SortAscending(SubSeq(s, 1, Len(s) - 1)),
              LAMBDA front : InsertSorted(front, s[Len(s)]))

\* A sort that leaves the slice as it is.
SortUnstableNoop(s) == s

\* <[u64]>::sort_unstable: ascending; equal keys are indistinguishable.
SortUnstable(s) == Bind(s, SortAscending)

\* ---------------------------------------------------------------- paths

\* A path is [root, comps]: whether it starts at the file system's root, and
\* its components.  "out.txt" is [FALSE, <<"out.txt">>].
TEMP_FILE_PREFIX == "sort_temp_file_"

PartitionName(file_num) == TEMP_FILE_PREFIX \o ToString(file_num) \o ".txt"

\* Path::parent: None for the empty path and for the root, otherwise the path
\* without its last component (the empty path for a bare file name).
PathParent(p) ==
    [some |-> p.comps # <<>>,
     root |-> p.root,
     comps |-> IF p.comps = <<>> THEN <<>> ELSE SubSeq(p.comps, 1, Len(p.comps) - 1)]

\* The path that the text format!("{}/{}{}.txt", parent.display(), prefix, n),
\* or format!("{}{}.txt", prefix, n) without a parent, names when it is opened:
\* a parent that displays as "" gives a text that starts with "/".
get_temp_file_path(out, file_num) ==
    LET parent == PathParent(out)
    IN  IF parent.some
        THEN [root |-> parent.root \/ parent.comps = <<>>,
              comps |-> Append(parent.comps, PartitionName(file_num))]
        ELSE [root |-> FALSE, comps |-> <<PartitionName(file_num)>>]

\* ----------------------------------------------------------- file system

\* The disk maps the paths of the files that exist to their lines.
EmptyDisk == [p \in {} |-> <<>>]

\* A create that does not truncate: the writes follow what the file held.
WriteFileKeep(d, p, lines) ==
    [q \in (DOMAIN d) \cup {p} |->
        IF q = p THEN (IF p \in DOMAIN d THEN d[p] ELSE <<>>) \o lines ELSE d[q]]

\* File::create followed by the writes: the file holds exactly `lines`.
WriteFile(d, p, lines) ==
    [q \in (DOMAIN d) \cup {p} |-> IF q = p THEN lines ELSE d[q]]

\* One more writeln! on an open file.
AppendLine(d, p, line) == [d EXCEPT ![p] = Append(@, line)]

\* fs::remove_file.
RemoveFile(d, p) == [q \in (DOMAIN d) \ {p} |-> d[q]]

\* ----------------------------------------------------------------- inputs

MaxLine ==
    <<"1", "8", "4", "4", "6", "7", "4", "4", "0", "7",
      "3", "7", "0", "9", "5", "5", "1", "6", "1", "5">>

OverLine ==
    <<"1", "8", "4", "4", "6", "7", "4", "4", "0", "7",
      "3", "7", "0", "9", "5", "5", "1", "6", "1", "6">>

\* Lines that parse: 0, 7 written with a leading zero, and 2^64 - 1.
ValidLines == {<<"0">>, <<"0", "7">>, MaxLine}

\* Lines that do not: blank, non-numeric, and 2^64.
BadLines == {<<>>, <<"x">>, OverLine}

SeqsUpTo(S, n) == UNION {[1..k -> S] : k \in 0..n}

\* The input files: up to MaxLen lines.  The run stops at the first line that
\* does not parse and never reads what follows it, so such a line is the last.
Inputs ==
    SeqsUpTo(ValidLines, MaxLen)
        \cup {Append(s, b) : s \in SeqsUpTo(ValidLines, MaxLen - 1), b \in BadLines}

\* --batch: from 0 up to more than the whole input.
BatchSizes == 0..(MaxLen + 1)

\* --output: a bare file name, and a file in a directory.
OutputPaths ==
    {[root |-> FALSE, comps |-> <<"out.txt">>],
     [root |-> FALSE, comps |-> <<"dir", "out.txt">>]}

\* What is on the disk before the run: nothing, or an output file of an
\* earlier run.
InitialDisks(out) == {EmptyDisk, WriteFile(EmptyDisk, out, <<<<"1">>>>)}

\* What an aborted earlier run left in a partition file: records that are not
\* in this run's input, out of order.
StaleLines == <<<<"5">>, <<"3">>>>

\* The indices of the partition files an earlier run left behind.
StaleIndexSets == {{0}, {1, 2}, {0, MaxLen}}

\* The disk with the partition files `left` of an earlier run with --output out.
StaleDisk(out, left) ==
    [p \in {get_temp_file_path(out, i) : i \in left} |-> StaleLines]

StaleDisks(out) == {StaleDisk(out, left) : left \in StaleIndexSets}

\* ------------------------------------------------------------------ state

VARIABLES
    input_exists,   \* whether the --input path can be opened
    input,          \* the lines of the input file
    output,         \* --output
    batch,          \* --batch
    disk0,          \* the disk before the run
    disk,           \* the disk
    pc,             \* where the run is: open_input, spill, merge, prime, loop,
                    \* delete, done
    result,         \* running, ok (main returned Ok), err (main returned Err),
                    \* panic
    pos,            \* lines of the input read so far
    batch_sorted,   \* main's buffer
    file_counter,   \* main's partition counter
    files_num,      \* merge_files' argument
    readers,        \* merge_files' open partition readers: [path, pos]
    idx,            \* the priming loop's index
    heap,           \* merge_files' BinaryHeap: a bag of <<num, idx>>
    file_num,       \* the deletion loop's index
    merge_calls,    \* how many times merge_files was called
    opened,         \* the paths merge_files opened for reading
    removed,        \* the paths merge_files removed
    written,        \* how many lines merge_files wrote to the output
    merge_bad_line, \* whether merge_files read a line that did not parse
    read_errors,    \* how many reads of a partition failed
    corrupted,      \* how many partition lines the environment damaged
    delete_errors   \* how many removals of a partition failed

args == <<input_exists, input, output, batch, disk0>>

spill_vars == <<pos, batch_sorted, file_counter>>

merge_vars == <<files_num, readers, idx, heap, file_num>>

history ==
    <<merge_calls, opened, removed, written, merge_bad_line, read_errors, corrupted,
      delete_errors>>

\* The faults injected so far.
Faults == corrupted + read_errors + delete_errors

vars == <<args, disk, pc, result, spill_vars, merge_vars, history>>

Init ==
    /\ input_exists \in BOOLEAN
    /\ input \in (IF input_exists THEN Inputs ELSE {<<>>})
    /\ output \in OutputPaths
    /\ batch \in BatchSizes
    /\ disk0 \in InitialDisks(output)
    /\ disk = disk0
    /\ pc = "open_input"
    /\ result = "running"
    /\ pos = 0
    /\ batch_sorted = <<>>
    /\ file_counter = 0
    /\ files_num = 0
    /\ readers = <<>>
    /\ idx = 0
    /\ heap = EmptyBag
    /\ file_num = 0
    /\ merge_calls = 0
    /\ opened = {}
    /\ removed = {}
    /\ written = 0
    /\ merge_bad_line = FALSE
    /\ read_errors = 0
    /\ corrupted = 0
    /\ delete_errors = 0

\* The start of a run in a directory that holds partition files of an earlier
\* run.
InitStale ==
    /\ input_exists = TRUE
    /\ input \in Inputs
    /\ output \in OutputPaths
    /\ batch \in BatchSizes
    /\ disk0 \in StaleDisks(output)
    /\ disk = disk0
    /\ pc = "open_input"
    /\ result = "running"
    /\ pos = 0
    /\ batch_sorted = <<>>
    /\ file_counter = 0
    /\ files_num = 0
    /\ readers = <<>>
    /\ idx = 0
    /\ heap = EmptyBag
    /\ file_num = 0
    /\ merge_calls = 0
    /\ opened = {}
    /\ removed = {}
    /\ written = 0
    /\ merge_bad_line = FALSE
    /\ read_errors = 0
    /\ corrupted = 0
    /\ delete_errors = 0

\* ------------------------------------------------------------ the spiller

\* A buffer that is flushed only once it holds more than the capacity.
FlushNeededAbove(len, cap) == len > cap

\* main.rs:105.
FlushNeeded(len, cap) == len >= cap

\* No final flush: what is left in the buffer is lost.
FinalFlushNeededNever(buf) == FALSE

\* A final flush whatever the buffer holds.
FinalFlushNeededAlways(buf) == TRUE

\* main.rs:112.
FinalFlushNeeded(buf) == buf # <<>>

\* A counter that is not incremented.
NextCounterStuck(n) == n

\* file_counter += 1 (main.rs:107, 114).
NextCounter(n) == n + 1

\* Sorter::sort_and_write_to_file: the disk after it.
sort_and_write_to_file(d, nums, n) ==
    Bind(SortUnstable(nums), LAMBDA sorted :
        WriteFile(d, get_temp_file_path(output, n), FormatAll(sorted)))

\* An open whose failure is not looked at.
OpenErrorIgnored(exists) == FALSE

\* The ? of File::open(&sorter.input)?: an Err returns from main.
OpenErrorReturns(exists) == ~exists

\* main, line 93.
OpenInput ==
    /\ pc = "open_input"
    /\ IF OpenErrorReturns(input_exists)
       THEN pc' = "done" /\ result' = "err"
       ELSE pc' = "spill" /\ UNCHANGED result
    /\ UNCHANGED <<args, disk, spill_vars, merge_vars, history>>

\* main, lines 99-110: one iteration of the loop over the input's lines.
ReadLine ==
    /\ pc = "spill"
    /\ pos < Len(input)
    /\ pos' = pos + 1
    /\ LET p == ParseU64(input[pos + 1])
           b == Append(batch_sorted, p.val)
       IN  IF ~p.ok
           THEN /\ pc' = "done"
                /\ result' = "err"
                /\ UNCHANGED <<disk, batch_sorted, file_counter>>
           ELSE /\ UNCHANGED <<pc, result>>
                /\ IF FlushNeeded(Len(b), batch)
                   THEN /\ disk' = sort_and_write_to_file(disk, b, file_counter)
                        /\ file_counter' = NextCounter(file_counter)
                        /\ batch_sorted' = <<>>
                   ELSE /\ batch_sorted' = b
                        /\ UNCHANGED <<disk, file_counter>>
    /\ UNCHANGED <<args, merge_vars, history>>

\* main, lines 112-117: the input is exhausted; the last flush and the call of
\* merge_files.
EndOfInput ==
    /\ pc = "spill"
    /\ pos = Len(input)
    /\ LET flush == FinalFlushNeeded(batch_sorted)
           n == IF flush THEN NextCounter(file_counter) ELSE file_counter
       IN  /\ disk' = IF flush
                      THEN sort_and_write_to_file(disk, batch_sorted, file_counter)
                      ELSE disk
           /\ file_counter' = n
           /\ files_num' = n
    /\ pc' = "merge"
    /\ merge_calls' = merge_calls + 1
    /\ UNCHANGED <<args, result, pos, batch_sorted, readers, idx, heap, file_num,
                   opened, removed, written, merge_bad_line, read_errors, corrupted,
                   delete_errors>>

\* ------------------------------------------------------------- the merger

\* What Lines::next gives: Some(Ok(line)), None, or Some(Err(_)).
RdLine(l) == [kind |-> "line", line |-> l]

RdEof == [kind |-> "eof", line |-> <<>>]

RdErr == [kind |-> "err", line |-> <<>>]

\* BufReader::lines().next() on a reader, the disk being reliable.
ReadNext(rd, d) ==
    IF rd.path \in DOMAIN d /\ rd.pos < Len(d[rd.path])
    THEN RdLine(d[rd.path][rd.pos + 1])
    ELSE RdEof

\* A reader that loses the line after the one it gives.
AdvanceSkips(rd, r) == IF r.kind = "line" THEN [rd EXCEPT !.pos = @ + 2] ELSE rd

\* The reader after a call of next that gave r.
Advance(rd, r) == IF r.kind = "line" THEN [rd EXCEPT !.pos = @ + 1] ELSE rd

\* Ord for (u64, usize): by the number, then by the index.
EntryLess(e, f) == U64Less(e[1], f[1]) \/ (e[1] = f[1] /\ e[2] < f[2])

\* A pop of the greatest entry (a max-heap without Reverse).
HeapPopMax(h) ==
    CHOOSE e \in BagToSet(h) : \A f \in BagToSet(h) : ~EntryLess(e, f)

\* BinaryHeap<Reverse<(u64, usize)>>::pop: the least entry.
HeapPop(h) ==
    CHOOSE e \in BagToSet(h) : \A f \in BagToSet(h) : ~EntryLess(f, e)

\* A push that keeps one entry for each number.
HeapPushDedup(h, e) ==
    IF \E f \in BagToSet(h) : f[1] = e[1] THEN h ELSE h (+) SetToBag({e})

\* BinaryHeap::push.
HeapPush(h, e) == h (+) SetToBag({e})

HeapRemove(h, e) == h (-) SetToBag({e})

\* A parse error that is dropped: the line counts as the end of the stream.
ParseErrorSkipped(p) == FALSE

\* The ? of line.parse()? in merge_files: an Err returns from the function.
ParseErrorReturns(p) == ~p.ok

\* A deletion loop that stops one partition short.
DeleteRangeShort(n) == 0..(n - 2)

\* merge_files, line 81: 0..files_num.
DeleteRange(n) == 0..(n - 1)

\* merge_files, lines 48-59: the empty case, or the opening of every partition.
MergeOpen ==
    /\ pc = "merge"
    /\ IF files_num = 0
       THEN /\ disk' = WriteFile(disk, output, <<>>)
            /\ pc' = "done"
            /\ result' = "ok"
            /\ UNCHANGED <<readers, opened>>
       ELSE LET paths == [i \in 1..files_num |-> get_temp_file_path(output, i - 1)]
                missing == {i \in 1..files_num : paths[i] \notin DOMAIN disk}
                upto == IF missing = {} THEN files_num
                        ELSE (CHOOSE i \in missing : \A j \in missing : i <= j) - 1
            IN  /\ opened' = opened \cup {paths[i] : i \in 1..upto}
                /\ UNCHANGED disk
                /\ IF missing = {}
                   THEN /\ readers' = [i \in 1..files_num |-> [path |-> paths[i], pos |-> 0]]
                        /\ pc' = "prime"
                        /\ UNCHANGED result
                   ELSE /\ readers' = <<>>
                        /\ pc' = "done"
                        /\ result' = "panic"
    /\ idx' = 0
    /\ UNCHANGED <<args, spill_vars, files_num, heap, file_num, merge_calls, removed,
                   written, merge_bad_line, read_errors, corrupted,
                   delete_errors>>

\* merge_files, lines 62-67: one iteration of the priming loop, next() having
\* given r.
PrimeWith(r) ==
    /\ pc = "prime"
    /\ idx < files_num
    /\ LET p == ParseU64(r.line)
       IN  /\ merge_bad_line' = (merge_bad_line \/ (r.kind = "line" /\ ~p.ok))
           /\ IF r.kind = "line" /\ ParseErrorReturns(p)
              THEN /\ pc' = "done"
                   /\ result' = "err"
                   /\ readers' = <<>>
                   /\ UNCHANGED <<heap, idx>>
              ELSE /\ heap' = IF r.kind = "line" /\ p.ok
                              THEN HeapPush(heap, <<p.val, idx>>)
                              ELSE heap
                   /\ readers' = [readers EXCEPT ![idx + 1] = Advance(@, r)]
                   /\ idx' = idx + 1
                   /\ UNCHANGED <<pc, result>>
    /\ read_errors' = read_errors + (IF r.kind = "err" THEN 1 ELSE 0)
    /\ UNCHANGED <<args, disk, spill_vars, files_num, file_num, merge_calls, opened,
                   removed, written, corrupted,
                   delete_errors>>

Prime == pc = "prime" /\ idx < files_num /\ PrimeWith(ReadNext(readers[idx + 1], disk))

\* merge_files, line 69.
CreateOutput ==
    /\ pc = "prime"
    /\ idx = files_num
    /\ disk' = WriteFile(disk, output, <<>>)
    /\ pc' = "loop"
    /\ UNCHANGED <<args, result, spill_vars, merge_vars, history>>

\* merge_files, lines 71-79: one iteration of the merge loop, next() having
\* given r.
MergeStepWith(r) ==
    /\ pc = "loop"
    /\ heap # EmptyBag
    /\ LET item == HeapPop(heap)
           rest == HeapRemove(heap, item)
           p == ParseU64(r.line)
       IN  /\ disk' = AppendLine(disk, output, FormatU64(item[1]))
           /\ written' = written + 1
           /\ merge_bad_line' = (merge_bad_line \/ (r.kind = "line" /\ ~p.ok))
           /\ IF r.kind = "line" /\ ParseErrorReturns(p)
              THEN /\ pc' = "done"
                   /\ result' = "err"
                   /\ readers' = <<>>
                   /\ heap' = rest
              ELSE /\ heap' = IF r.kind = "line" /\ p.ok
                              THEN HeapPush(rest, <<p.val, item[2]>>)
                              ELSE rest
                   /\ readers' = [readers EXCEPT ![item[2] + 1] = Advance(@, r)]
                   /\ UNCHANGED <<pc, result>>
    /\ read_errors' = read_errors + (IF r.kind = "err" THEN 1 ELSE 0)
    /\ UNCHANGED <<args, spill_vars, files_num, idx, file_num, merge_calls, opened,
                   removed, corrupted,
                   delete_errors>>

MergeStep ==
    /\ pc = "loop"
    /\ heap # EmptyBag
    /\ MergeStepWith(ReadNext(readers[HeapPop(heap)[2] + 1], disk))

\* merge_files, line 71: the heap is empty and the loop ends.
MergeLoopEnd ==
    /\ pc = "loop"
    /\ heap = EmptyBag
    /\ pc' = "delete"
    /\ file_num' = 0
    /\ UNCHANGED <<args, disk, result, spill_vars, files_num, readers, idx, heap, history>>

\* A removal whose failure is not looked at.
RemoveErrorIgnored(failed) == FALSE

\* The ? of fs::remove_file(&temp_file_path)?: an Err returns from merge_files.
RemoveErrorReturns(failed) == failed

\* merge_files, lines 81-84: one iteration of the deletion loop, remove_file
\* failing if `fails` or if there is no such file.
DeletePartitionWith(fails) ==
    /\ pc = "delete"
    /\ file_num < files_num
    /\ LET path == get_temp_file_path(output, file_num)
           failed == fails \/ path \notin DOMAIN disk
       IN  IF file_num \notin DeleteRange(files_num)
           THEN /\ file_num' = file_num + 1
                /\ UNCHANGED <<disk, removed, pc, result, readers, delete_errors>>
           ELSE /\ delete_errors' = delete_errors + (IF failed THEN 1 ELSE 0)
                /\ disk' = IF failed THEN disk ELSE RemoveFile(disk, path)
                /\ removed' = IF failed THEN removed ELSE removed \cup {path}
                /\ IF RemoveErrorReturns(failed)
                   THEN /\ pc' = "done"
                        /\ result' = "err"
                        /\ readers' = <<>>
                        /\ UNCHANGED file_num
                   ELSE /\ file_num' = file_num + 1
                        /\ UNCHANGED <<pc, result, readers>>
    /\ UNCHANGED <<args, spill_vars, files_num, idx, heap, merge_calls, opened, written,
                   merge_bad_line, read_errors, corrupted>>

DeletePartition == pc = "delete" /\ file_num < files_num /\ DeletePartitionWith(FALSE)

\* merge_files, line 86, and main, lines 117-119: the readers are dropped and
\* the run ends in success.
MergeReturn ==
    /\ pc = "delete"
    /\ file_num = files_num
    /\ readers' = <<>>
    /\ pc' = "done"
    /\ result' = "ok"
    /\ UNCHANGED <<args, disk, spill_vars, files_num, idx, heap, file_num, history>>

\* ------------------------------------------------------- the environment

\* Another process damages one line of a partition file between the two
\* phases (a partition is not read before, and each line is read once after).
CorruptPartition ==
    /\ pc = "merge"
    /\ Faults < MaxFaults
    /\ \E i \in 0..(files_num - 1) :
         LET path == get_temp_file_path(output, i)
         IN  /\ path \in DOMAIN disk
             /\ \E k \in 1..Len(disk[path]) :
                  \E bad \in {<<>>, <<"x">>} :
                     disk' = [disk EXCEPT ![path][k] = bad]
    /\ corrupted' = corrupted + 1
    /\ UNCHANGED <<args, pc, result, spill_vars, merge_vars, merge_calls, opened,
                   removed, written, merge_bad_line, read_errors, delete_errors>>

\* A read of a partition fails while the queue is primed.
PrimeReadError ==
    /\ pc = "prime"
    /\ idx < files_num
    /\ Faults < MaxFaults
    /\ PrimeWith(RdErr)

\* A read of a partition fails in the merge loop.
MergeStepReadError ==
    /\ pc = "loop"
    /\ heap # EmptyBag
    /\ Faults < MaxFaults
    /\ MergeStepWith(RdErr)

\* The removal of a partition fails.
DeletePartitionError ==
    /\ pc = "delete"
    /\ file_num < files_num
    /\ Faults < MaxFaults
    /\ DeletePartitionWith(TRUE)

\* ---------------------------------------------------------- specifications

Next ==
    \/ OpenInput
    \/ ReadLine
    \/ EndOfInput
    \/ MergeOpen
    \/ Prime
    \/ CreateOutput
    \/ MergeStep
    \/ MergeLoopEnd
    \/ DeletePartition
    \/ MergeReturn

\* The run on a reliable file system that nobody else writes to.
Spec == Init /\ [][Next]_vars

\* The run as the single thread executes it: it takes its next step as long as
\* there is one.
FairSpec == Spec /\ WF_vars(Next)

NextFault ==
    \/ Next
    \/ CorruptPartition
    \/ PrimeReadError
    \/ MergeStepReadError
    \/ DeletePartitionError

\* The run when partition files may be damaged and reads of them may fail.
SpecFault == Init /\ [][NextFault]_vars

\* The run in a directory where an earlier run left partition files.
SpecStale == InitStale /\ [][Next]_vars

\* ------------------------------------------------------- reference values

\* The texts of the records of ValidLines as the run writes them, in ascending
\* order of their values: 0 < 7 < 2^64 - 1.
CanonLines == <<<<"0">>, <<"7">>, MaxLine>>

\* The text a valid input line is written back as.
Canon(l) == IF l = <<"0", "7">> THEN <<"7">> ELSE l

IsCanon(l) == \E r \in DOMAIN CanonLines : CanonLines[r] = l

\* The place of a canonical line in the order of the values.
Rank(l) == CHOOSE r \in DOMAIN CanonLines : CanonLines[r] = l

\* How many input records have the value that l writes.
InputCount(l) == Cardinality({i \in 1..Len(input) : Canon(input[i]) = l})

\* How many lines of a file are l.
LineCount(f, l) == Cardinality({i \in 1..Len(f) : f[i] = l})

Repeat(l, n) == [i \in 1..n |-> l]

\* The sorted input, as text: every 0, then every 7, then every 2^64 - 1.
ExpectedOutput ==
    Repeat(CanonLines[1], InputCount(CanonLines[1]))
        \o Repeat(CanonLines[2], InputCount(CanonLines[2]))
        \o Repeat(CanonLines[3], InputCount(CanonLines[3]))

\* main returned Ok.
Success == pc = "done" /\ result = "ok"

\* Two neighbouring input records are out of order.
InputUnsorted ==
    \E i \in 1..(Len(input) - 1) : Rank(Canon(input[i + 1])) < Rank(Canon(input[i]))

\* The partition paths of this run.
PartitionPath(i) == get_temp_file_path(output, i)

\* ------------------------------------------------------------------ claims

\* C1: after a successful run the output file exists, every line of it is a
\* record, and the values read in order never decrease.
C1_OutputSorted ==
    Success =>
        /\ output \in DOMAIN disk
        /\ \A i \in 1..Len(disk[output]) : IsCanon(disk[output][i])
        /\ \A i \in 1..(Len(disk[output]) - 1) :
              Rank(disk[output][i]) <= Rank(disk[output][i + 1])

\* An unsorted input of three records was spilled to several partitions and
\* merged.
C1_Witness ==
    /\ Success
    /\ InputUnsorted
    /\ Len(input) = 3
    /\ files_num >= 2
    /\ batch >= 1
    /\ Len(disk[output]) = 3

\* C2: after a successful run every value occurs in the output exactly as
\* often as in the input: nothing is dropped, added or deduplicated.
C2_MultisetPreserved ==
    Success =>
        /\ output \in DOMAIN disk
        /\ Len(disk[output]) = Len(input)
        /\ \A i \in 1..Len(disk[output]) : IsCanon(disk[output][i])
        /\ \A r \in DOMAIN CanonLines :
              LineCount(disk[output], CanonLines[r]) = InputCount(CanonLines[r])

\* A successful run over an input that holds the same value more than once,
\* in different partitions.
C2_Witness ==
    /\ Success
    /\ files_num >= 2
    /\ \E i, j \in 1..Len(input) : i # j /\ Canon(input[i]) = Canon(input[j])
    /\ \E r \in DOMAIN CanonLines : LineCount(disk[output], CanonLines[r]) >= 2

\* C3: the output of a successful run is a function of the input alone: it is
\* the sorted input as text, whatever the batch size (0, 1, ..., more than the
\* whole input), so two runs on one input with two batch sizes agree.
C3_BatchSizeIndependent ==
    Success => output \in DOMAIN disk /\ disk[output] = ExpectedOutput

\* A successful run whose batch size divides the input unevenly: a full
\* partition and a shorter last one.
C3_Witness ==
    /\ Success
    /\ Len(input) = 3
    /\ batch = 2
    /\ files_num = 2
    /\ InputUnsorted

\* C4: after a successful run none of the partitions 0..N-1 the spiller made
\* is on the disk, merge_files has removed each of them, and the run leaves no
\* file behind but the output.
C4_PartitionsRemoved ==
    Success =>
        /\ \A i \in 0..(file_counter - 1) :
              /\ PartitionPath(i) \notin DOMAIN disk
              /\ PartitionPath(i) \in removed
        /\ DOMAIN disk \subseteq (DOMAIN disk0) \cup {output}

\* A successful run that had made three partitions.
C4_Witness == Success /\ file_counter = 3 /\ Cardinality(removed) = 3

C6_EmptyInput ==
    (input_exists /\ input = <<>>) =>
        /\ result \in {"running", "ok"}
        /\ file_counter = 0
        /\ files_num = 0
        /\ opened = {}
        /\ removed = {}
        /\ readers = <<>>
        /\ DOMAIN disk \subseteq (DOMAIN disk0) \cup {output}
        /\ pc = "done" => /\ result = "ok"
                          /\ output \in DOMAIN disk
                          /\ disk[output] = <<>>

\* The run on an empty input has ended, over an output file of an earlier run.
C6_Witness ==
    /\ input_exists
    /\ input = <<>>
    /\ pc = "done"
    /\ merge_calls = 1
    /\ output \in DOMAIN disk0

\* C7: when the input holds 0 and 2^64 - 1, a successful run writes 0 on the
\* first line of the output and 2^64 - 1 on the last, and drops neither.
C7_BoundaryValues ==
    (/\ Success
     /\ \E i \in 1..Len(input) : input[i] = <<"0">>
     /\ \E i \in 1..Len(input) : input[i] = MaxLine) =>
        /\ Len(disk[output]) = Len(input)
        /\ disk[output][1] = <<"0">>
        /\ disk[output][Len(disk[output])] = MaxLine

\* A successful run over 2^64 - 1, 7, 0 in that order, one record a partition.
C7_Witness ==
    /\ Success
    /\ input = <<MaxLine, <<"0", "7">>, <<"0">>>>
    /\ batch = 1

\* C8, as claimed: a line that does not parse while the merger reads a
\* partition counts as the end of that stream, and the run still ends in
\* success.
C8_BadLineIsEndOfStream ==
    (batch >= 1 /\ merge_bad_line /\ pc = "done") => result = "ok"

\* C8, as the code has it: a line that does not parse while the merger reads a
\* partition (priming the queue or advancing a stream) ends the run at once
\* with an error: merge_files returns, drops its readers, and has removed no
\* partition.
C8_BadLineIsFatal ==
    merge_bad_line =>
        /\ pc = "done"
        /\ result = "err"
        /\ readers = <<>>
        /\ removed = {}
        /\ \A i \in 0..(files_num - 1) : PartitionPath(i) \in DOMAIN disk

\* The merger met a damaged line when it advanced a stream, after it had
\* written a record.
C8_Witness == merge_bad_line /\ written >= 1 /\ files_num >= 2 /\ corrupted = 1

\* C9: the run (batch size >= 1) never ends in success after a read of a
\* partition failed.
C9_ReadFailureFatal == (batch >= 1 /\ read_errors > 0) => result # "ok"

\* C10: when the k-th input line does not parse (blank, non-numeric, or out of
\* range) the merger is never called and the output file is left as it was;
\* once the run has ended it has ended with an error at line k, and with a
\* batch size B >= 1 exactly the floor((k-1)/B) partitions flushed before line
\* k are what the run added to the disk.
C10_MalformedInputLine ==
    LET bad == {k \in 1..Len(input) : input[k] \in BadLines}
        k == CHOOSE k \in bad : \A j \in bad : k <= j
    IN  (input_exists /\ bad # {}) =>
            /\ merge_calls = 0
            /\ pc \in {"open_input", "spill", "done"}
            /\ (output \in DOMAIN disk) = (output \in DOMAIN disk0)
            /\ output \in DOMAIN disk => disk[output] = disk0[output]
            /\ pc = "done" =>
                  /\ result = "err"
                  /\ pos = k
                  /\ batch >= 1 => file_counter = (k - 1) \div batch
                  /\ DOMAIN disk =
                        (DOMAIN disk0) \cup {PartitionPath(i) : i \in 0..(file_counter - 1)}

\* The run ended at a blank third line with a batch size of one: two
\* partitions stay on the disk.
C10_Witness ==
    /\ pc = "done"
    /\ Len(input) = 3
    /\ input[3] = <<>>
    /\ batch = 1
    /\ file_counter = 2
    /\ PartitionPath(1) \in DOMAIN disk

\* C11: when the input path cannot be opened no record is read, no file is
\* made or changed on the disk (no partition, no output), the merger is never
\* called, and the run ends with an error.
C11_InputUnavailable ==
    ~input_exists =>
        /\ pos = 0
        /\ file_counter = 0
        /\ merge_calls = 0
        /\ opened = {}
        /\ disk = disk0
        /\ pc \in {"open_input", "done"}
        /\ pc = "done" => result = "err"

\* The run on a missing input has ended, no output file having been there.
C11_Witness ==
    /\ ~input_exists
    /\ pc = "done"
    /\ result = "err"
    /\ output \notin DOMAIN disk

\* C12: when the deletion of a partition is attempted (batch size >= 1), the
\* merger holds no open reader on that partition.
C12_ClosedBeforeDeletion ==
    (batch >= 1 /\ pc = "delete" /\ file_num < files_num) =>
        \A k \in DOMAIN readers : readers[k].path # PartitionPath(file_num)

\* The directory part of a path.
DirOf(p) == [root |-> p.root, comps |-> SubSeq(p.comps, 1, Len(p.comps) - 1)]

\* C13: every partition file the run makes lies in the directory of the output
\* path: for a bare output file name that is the current directory, so the
\* partition path is the relative name <prefix><i>.txt.
C13_PartitionBesideOutput ==
    batch >= 1 =>
        \A p \in (DOMAIN disk) \ ((DOMAIN disk0) \cup {output}) :
            /\ DirOf(p) = DirOf(output)
            /\ \E i \in 0..MaxLen : p.comps[Len(p.comps)] = PartitionName(i)

\* C14: a removal of a partition that fails ends the run at once with an
\* error, and the run never ends in success while one of its partitions
\* 0..N-1 is on the disk.
C14_DeleteFailureFatal ==
    /\ delete_errors > 0 => pc = "done" /\ result = "err"
    /\ Success => \A i \in 0..(files_num - 1) : PartitionPath(i) \notin DOMAIN disk

\* The removal of the second of two partitions failed: it is still on the disk.
C14_Witness ==
    /\ delete_errors = 1
    /\ files_num = 2
    /\ PartitionPath(0) \in removed
    /\ PartitionPath(1) \in DOMAIN disk
    /\ result = "err"

\* The u64 that the canonical line of rank r writes.
CanonValue(r) ==
    CASE r = 1 -> <<0, 0, 0, 0>>
      [] r = 2 -> <<0, 0, 0, 7>>
      [] r = 3 -> <<65535, 65535, 65535, 65535>>

\* The entries of the queue that belong to partition i.
EntriesOf(i) == {e \in BagToSet(heap) : e[2] = i}

\* The lines of partition i (0-based) as the merger's reader i sees them.
PartitionLines(i) == disk[readers[i + 1].path]

\* The first line of partition i that has not been written to the output: the
\* line its entry in the queue stands for, or the one after the last line read.
NextUnwritten(i) ==
    IF EntriesOf(i) # {} THEN readers[i + 1].pos ELSE readers[i + 1].pos + 1

RECURSIVE SumUpTo(_, _)
SumUpTo(f(_), n) == IF n < 0 THEN 0 ELSE f(n) + SumUpTo(f, n - 1)

\* How many lines of partition i have been written to the output.
WrittenOf(i) == NextUnwritten(i) - 1

\* C15: in the merge loop the queue holds each entry once and at most one
\* entry for a partition; a partition has an entry exactly when some record of
\* it is not yet written, and the entry is the first such record; the entry
\* that is popped next is no greater than any record not yet written.
C15_MergeFrontier ==
    pc = "loop" =>
        /\ \A e \in BagToSet(heap) : CopiesIn(e, heap) = 1
        /\ \A i \in 0..(files_num - 1) :
              /\ Cardinality(EntriesOf(i)) <= 1
              /\ (EntriesOf(i) # {}) = (NextUnwritten(i) <= Len(PartitionLines(i)))
              /\ \A e \in EntriesOf(i) :
                    /\ readers[i + 1].pos >= 1
                    /\ e[1] = CanonValue(Rank(PartitionLines(i)[NextUnwritten(i)]))
        /\ written = SumUpTo(WrittenOf, files_num - 1)
        /\ heap # EmptyBag =>
              LET m == HeapPop(heap)
                  low == Rank(PartitionLines(m[2])[NextUnwritten(m[2])])
              IN  \A i \in 0..(files_num - 1) :
                     \A k \in NextUnwritten(i)..Len(PartitionLines(i)) :
                        low <= Rank(PartitionLines(i)[k])

\* The merge loop with two entries in the queue, one record written and one
\* partition already finished.
C15_Witness ==
    /\ pc = "loop"
    /\ files_num = 3
    /\ written = 1
    /\ Cardinality(BagToSet(heap)) = 2

\* The lines of a file are records in non-decreasing order.
SortedLines(f) ==
    /\ \A k \in 1..Len(f) : IsCanon(f[k])
    /\ \A k \in 1..(Len(f) - 1) : Rank(f[k]) <= Rank(f[k + 1])

\* C16: in every step, each partition the spiller has written is sorted; a
\* partition file is made or changed only by the flush that writes the index
\* file_counter and then moves the counter one up, so an index is written once
\* and later flushes take greater indices; a written partition goes away only
\* when the merger's deletion loop removes it.
C16_PartitionsWrittenOnce ==
    [][\A i \in 0..(MaxLen + 1) :
          LET path == PartitionPath(i)
              made == path \in DOMAIN disk' /\ path \notin DOMAIN disk
              changed == /\ path \in DOMAIN disk
                         /\ path \in DOMAIN disk'
                         /\ disk'[path] # disk[path]
              gone == path \in DOMAIN disk /\ path \notin DOMAIN disk'
          IN  /\ (i < file_counter' /\ path \in DOMAIN disk') => SortedLines(disk'[path])
              /\ (made \/ changed) =>
                    /\ pc = "spill"
                    /\ i = file_counter
                    /\ file_counter' = file_counter + 1
              /\ gone => pc = "delete" /\ path \in removed'
      ]_vars

\* The spiller has written two partitions, the first from two records that
\* came out of order.
C16_Witness ==
    /\ pc = "merge"
    /\ file_counter = 2
    /\ batch = 2
    /\ Len(input) = 3
    /\ Rank(Canon(input[2])) < Rank(Canon(input[1]))
    /\ Len(disk[PartitionPath(0)]) = 2

\* How many lines partition i holds on the disk.
PartitionLen(i) ==
    IF PartitionPath(i) \in DOMAIN disk THEN Len(disk[PartitionPath(i)]) ELSE 0

\* C17: merge_files is called at most once, and exactly once in a run that
\* ends in success; before the call nothing is opened for reading or removed;
\* from the call on the whole input has been read, the count passed is the
\* spiller's counter, and at the call every record read lies in one of the
\* partitions 0..N-1 (the last batch is flushed).
C17_PhasesInSequence ==
    /\ merge_calls \in {0, 1}
    /\ merge_calls = 0 =>
          /\ pc \in {"open_input", "spill", "done"}
          /\ opened = {}
          /\ removed = {}
          /\ readers = <<>>
    /\ merge_calls = 1 =>
          /\ pc \notin {"open_input", "spill"}
          /\ input_exists
          /\ pos = Len(input)
          /\ files_num = file_counter
    /\ pc = "merge" => SumUpTo(PartitionLen, file_counter - 1) = Len(input)
    /\ Success => merge_calls = 1

\* The merger has opened the two partitions of a three-record input.
C17_Witness ==
    /\ pc = "prime"
    /\ merge_calls = 1
    /\ Len(input) = 3
    /\ files_num = 2
    /\ Cardinality(opened) = 2

\* How many lines the merger's reader i has taken.
LinesRead(i) == readers[i + 1].pos

\* C18: every run ends; the merge loop writes one line for each pop and never
\* more than the T records of the input, each pop advances one stream by at
\* most one line (the lines read are the lines written plus the entries in
\* the queue), the queue is empty exactly when every record is written, and a
\* run that ends in success has made T iterations.
C18_Terminates ==
    /\ <>(pc = "done")
    /\ [](/\ written <= Len(input)
          /\ pc = "loop" =>
                /\ SumUpTo(LinesRead, files_num - 1) = written + BagCardinality(heap)
                /\ (heap = EmptyBag) = (written = Len(input))
                /\ Len(disk[output]) = written
          /\ Success => written = Len(input))

\* The merge loop has ended after three iterations over two partitions.
C18_Witness ==
    /\ pc = "delete"
    /\ written = 3
    /\ files_num = 2
    /\ heap = EmptyBag

\* The indices of the partition files that were on the disk before the run.
StaleIndices == {i \in 0..MaxLen : PartitionPath(i) \in DOMAIN disk0}

\* The input positions whose records the spiller puts in partition i.
ChunkOf(i) ==
    LET cap == IF batch = 0 THEN 1 ELSE batch
    IN  {k \in 1..Len(input) : (k - 1) \div cap = i}

\* C19: partition files left by an earlier run do not change the output.  A
\* stale file whose index the spiller has reached holds this run's records of
\* that partition and nothing else (or is deleted again); a stale file with an
\* index the spiller has not reached, or at or above the N given to the merger,
\* is as it was and has not been opened; a successful run leaves the sorted
\* input of this run in the output.
C19_StaleIgnored ==
    /\ \A i \in StaleIndices :
          LET path == PartitionPath(i)
          IN  IF i < file_counter
              THEN path \in DOMAIN disk =>
                      /\ Len(disk[path]) = Cardinality(ChunkOf(i))
                      /\ \A r \in DOMAIN CanonLines :
                            LineCount(disk[path], CanonLines[r])
                                = Cardinality({k \in ChunkOf(i) :
                                                 Canon(input[k]) = CanonLines[r]})
              ELSE /\ path \in DOMAIN disk
                   /\ disk[path] = disk0[path]
                   /\ path \notin opened
                   /\ path \notin removed
    /\ Success => /\ output \in DOMAIN disk
                  /\ disk[output] = ExpectedOutput

\* A successful run of two partitions where partition files 0 and 3 were left
\* behind: file 0 was replaced, merged and deleted, file 3 is as it was.
C19_Witness ==
    /\ Success
    /\ StaleIndices = {0, MaxLen}
    /\ files_num = 2
    /\ Len(input) = 3
    /\ InputUnsorted
    /\ PartitionPath(0) \in removed
    /\ disk[PartitionPath(MaxLen)] = StaleLines

====
